---- MODULE Spec2Model ----
(***************************************************************************)
(* Model of modred's BPOD (src/src/bpod.py) and ERA (src/src/era.py).      *)
(*                                                                         *)
(* BPOD is run SPMD: every worker owns one BPOD instance and executes the  *)
(* same script of calls.  Workers communicate only through comm.bcast      *)
(* (root 0) and parallel.sync (a barrier).  A worker step is the code up   *)
(* to the next collective the worker can block in.                         *)
(*                                                                         *)
(* ERA is a single-process object; one action is one public call.          *)
(***************************************************************************)
EXTENDS Integers, Sequences, FiniteSets, TLC

(***************************************************************************)
(* Bounds                                                                  *)
(***************************************************************************)
MaxWorkers == 2
MaxCalls == 2
MaxT == 8
MaxERACalls == 2
MaxSamples == 4
MaxTime == 4

VARIABLES
    \* ---- BPOD, one instance per worker ----
    nprocs,               \* number of MPI workers; 1 = not distributed
    put_mat, get_mat,     \* constructor kwargs: TRUE = a function, FALSE = None
    prog,                 \* the script of calls every worker executes
    ip,                   \* ip[w]: index in prog of the call w is in / will start
    pc,                   \* pc[w]: position of w inside its current call
    stage,                \* stage[w]: sub-steps of put_decomp already returned
    L_sing_vecs, sing_vals, R_sing_vecs, hankel_mat,
    direct_vec_handles, adjoint_vec_handles, direct_vecs, adjoint_vecs,
    err,                  \* err[w]: exception that ended w's script, or "none"
    chan,                 \* chan[w]: broadcast payloads from root not yet received by w
    bar,                  \* bar[w]: number of barriers w has entered
    store,                \* persistent storage: destination -> matrix
    svdLog, getLog, putLog,   \* calls to util.svd, get_mat, put_mat, in order
    bcastLog, modeLog         \* per worker: its broadcasts, its calls to mode synthesis

bpodVars == <<nprocs, put_mat, get_mat, prog, ip, pc, stage,
              L_sing_vecs, sing_vals, R_sing_vecs, hankel_mat,
              direct_vec_handles, adjoint_vec_handles, direct_vecs, adjoint_vecs,
              err, chan, bar, store, svdLog, getLog, putLog, bcastLog, modeLog>>

VARIABLES
    \* ---- ERA, one instance in one process ----
    era,                  \* the fields of the ERA instance (self)
    eraCtor,              \* the kwargs the instance was constructed with
    eraOut,               \* the last call on the instance and its outcome
    eraStore,             \* what put_mat has written to A_dest, B_dest, C_dest
    eraCalls,             \* number of calls made on the instance
    fmtOut                \* the last call of make_sampled_format and its outcome

eraVars == <<era, eraCtor, eraOut, eraStore, eraCalls, fmtOut>>

vars == <<bpodVars, eraVars>>

(***************************************************************************)
(* Values.  A BPOD matrix is opaque to bpod.py: it is modelled by its      *)
(* shape, the derivation of its entries and whether the entries are finite.*)
(***************************************************************************)
None == [shape |-> <<>>, id |-> <<"None">>, finite |-> TRUE]

Mat(shape, id, finite) == [shape |-> shape, id |-> id, finite |-> finite]

Workers == 0 .. (nprocs - 1)

is_rank_zero(w) == w = 0

is_distributed == nprocs > 1

\* N.squeeze(N.array(m)): drops the axes of length one, keeps the entries
Squeeze(m) == [m EXCEPT !.shape = SelectSeq(m.shape, LAMBDA d : d # 1)]

\* vec_ops.compute_inner_product_mat(adjoint, direct): same result on every worker
InnerProductMat(adjoint, direct) ==
    Mat(<<2, 2>>, <<"ip", adjoint, direct>>, TRUE)

\* util.svd
SvdRaises(m) == m = None \/ ~m.finite
Svd(m) == [L |-> Mat(<<m.shape[1], 2>>, <<"L">> \o m.id, TRUE),
           S |-> Mat(<<2>>, <<"S">> \o m.id, TRUE),
           R |-> Mat(<<m.shape[2], 2>>, <<"R">> \o m.id, TRUE)]

\* length of the first axis, 0 without one
Rows(m) == Head(m.shape \o <<0>>)

\* N.dot(vecs, N.diag(sing_vals**-0.5))
BuildCoeffMat(vecs, sv) == Mat(<<Rows(vecs), Rows(sv)>>,
                               <<"dot">> \o vecs.id \o <<"diag^-.5">> \o sv.id, TRUE)

(***************************************************************************)
(* The script                                                              *)
(***************************************************************************)
Call(op, a1, a2, a3) == [op |-> op, a1 |-> a1, a2 |-> a2, a3 |-> a3]

DirectArgs == {"X"}
AdjointArgs == {"Y"}
Files == {"fL", "fS", "fR"}
Dests == {"dH", "dL", "dS", "dR", "dBad"}
Names == Files \cup Dests

Calls ==
    {Call("compute_decomp", d, a, "-") : d \in DirectArgs, a \in AdjointArgs}
    \cup {Call("compute_decomp_in_memory", "X", "Y", "-")}
    \cup {Call("compute_SVD", "-", "-", "-")}
    \cup {Call("get_decomp", "fL", "fS", "fR"), Call("get_decomp", "dL", "dS", "dR")}
    \cup {Call("put_hankel_mat", "dH", "-", "-"), Call("put_hankel_mat", "dBad", "-", "-"),
          Call("put_L_sing_vecs", "dL", "-", "-"),
          Call("put_R_sing_vecs", "dR", "-", "-"), Call("put_sing_vals", "dS", "-", "-"),
          Call("put_decomp", "dL", "dS", "dR")}
    \cup {Call("compute_direct_modes", h, "-", "-") : h \in {"none", "X"}}
    \cup {Call("compute_direct_modes_in_memory", "X", "-", "-")}
    \cup {Call("compute_adjoint_modes", "Y", "-", "-")}
    \cup {Call("compute_adjoint_modes_in_memory", h, "-", "-") : h \in {"none", "Y"}}

Absent == [shape |-> <<>>, id |-> <<"absent">>, finite |-> TRUE]

InitStore == [n \in Names |->
                 CASE n = "fL" -> Mat(<<2, 2>>, <<"file", "fL">>, TRUE)
                   [] n = "fS" -> Mat(<<2, 1>>, <<"file", "fS">>, TRUE)
                   [] n = "fR" -> Mat(<<2, 2>>, <<"file", "fR">>, TRUE)
                   [] OTHER -> Absent]


\* the fields of the instances after BPOD.__init__, and the collaborators
BPODConstructed ==
    /\ ip = [w \in Workers |-> 1]
    /\ pc = [w \in Workers |-> "idle"]
    /\ stage = [w \in Workers |-> 0]
    /\ L_sing_vecs = [w \in Workers |-> None]
    /\ sing_vals = [w \in Workers |-> None]
    /\ R_sing_vecs = [w \in Workers |-> None]
    /\ hankel_mat = [w \in Workers |-> None]
    /\ direct_vec_handles = [w \in Workers |-> "none"]
    /\ adjoint_vec_handles = [w \in Workers |-> "none"]
    /\ direct_vecs = [w \in Workers |-> "none"]
    /\ adjoint_vecs = [w \in Workers |-> "none"]
    /\ err = [w \in Workers |-> "none"]
    /\ chan = [w \in Workers |-> <<>>]
    /\ bar = [w \in Workers |-> 0]
    /\ store = InitStore
    /\ svdLog = <<>>
    /\ getLog = <<>>
    /\ putLog = <<>>
    /\ bcastLog = [w \in Workers |-> <<>>]
    /\ modeLog = [w \in Workers |-> <<>>]

BPODInit ==
    /\ nprocs \in 1 .. MaxWorkers
    /\ put_mat \in BOOLEAN
    /\ get_mat \in BOOLEAN
    /\ prog \in [1 .. MaxCalls -> Calls]
    /\ BPODConstructed

(***************************************************************************)
(* BPOD: helpers for one worker's step                                     *)
(***************************************************************************)
HasCall(w) == pc[w] = "idle" /\ ip[w] <= MaxCalls

Cur(w) == prog[ip[w]]

AtCall(w, op) == HasCall(w) /\ Cur(w).op = op

\* the call returns to the script
Return(w) ==
    /\ pc' = [pc EXCEPT ![w] = "idle"]
    /\ ip' = [ip EXCEPT ![w] = @ + 1]
    /\ stage' = [stage EXCEPT ![w] = 0]
    /\ err' = err

\* an exception leaves the call and, uncaught, ends the worker's script
Raise(w, e) ==
    /\ pc' = [pc EXCEPT ![w] = "raised"]
    /\ err' = [err EXCEPT ![w] = e]
    /\ UNCHANGED <<ip, stage>>

Goto(w, label) ==
    /\ pc' = [pc EXCEPT ![w] = label]
    /\ UNCHANGED <<ip, stage, err>>

\* comm.bcast(value, root=0), three times in a row.  The root hands its three
\* values to every other worker without waiting and keeps them; another worker
\* blocks until the root's values have arrived and takes them in the order
\* they were sent.  The root sends its three values in one step, so the three
\* receptions of another worker are one step as well.
BcastReady(w) == Len(chan[w]) >= 3

BcastSent(w, payloads) ==
    [v \in Workers |-> IF v = w THEN chan[v] ELSE chan[v] \o payloads]

BcastLogged(w) ==
    [bcastLog EXCEPT ![w] = @ \o <<[call |-> ip[w], what |-> "L"],
                                   [call |-> ip[w], what |-> "S"],
                                   [call |-> ip[w], what |-> "R"]>>]

\* parallel.sync(): a barrier; nobody leaves it before everybody has entered it
SyncReady(w) == \A v \in Workers : bar[v] >= bar[w]

NoCollective == UNCHANGED <<chan, bcastLog, bar>>

NoIO == UNCHANGED <<store, getLog, putLog>>

NoHandles == UNCHANGED <<direct_vec_handles, adjoint_vec_handles, direct_vecs, adjoint_vecs>>

Config == <<nprocs, put_mat, get_mat, prog>>

(***************************************************************************)
(* BPOD.compute_SVD, also the tail of compute_decomp and                   *)
(* compute_decomp_in_memory                                                *)
(***************************************************************************)
SvdOnThisRank(w) == is_rank_zero(w)

\* line 173: the value rank zero hands to the third broadcast
SvdRPayloadWrong(l, r) == l
SvdRPayload(l, r) == r

\* line 167 (and line 74 of get_decomp): the broadcasts are entered by every
\* worker of a distributed run
EntersBcastsOnRankZeroOnly(w) == is_distributed /\ is_rank_zero(w)
EntersBcasts(w) == is_distributed

\* rank zero: util.svd and, if distributed, its side of the three broadcasts;
\* another worker: the three fields set to None, then the first broadcast
SVDPart(w, hm) ==
    IF SvdOnThisRank(w)
    THEN IF SvdRaises(hm)
         THEN /\ Raise(w, "NumericalError")
              /\ UNCHANGED <<L_sing_vecs, sing_vals, R_sing_vecs, svdLog, chan, bcastLog>>
         ELSE LET res == Svd(hm)
                  sent == SvdRPayload(res.L, res.R)
              IN  /\ L_sing_vecs' = [L_sing_vecs EXCEPT ![w] = res.L]
                  /\ sing_vals' = [sing_vals EXCEPT ![w] = res.S]
                  /\ R_sing_vecs' = [R_sing_vecs EXCEPT ![w] =
                                        IF is_distributed THEN sent ELSE res.R]
                  /\ svdLog' = Append(svdLog, [rank |-> w, call |-> ip[w], mat |-> hm,
                                               res |-> res])
                  /\ IF is_distributed
                     THEN /\ chan' = BcastSent(w, <<res.L, res.S, sent>>)
                          /\ bcastLog' = BcastLogged(w)
                     ELSE UNCHANGED <<chan, bcastLog>>
                  /\ Return(w)
    ELSE /\ L_sing_vecs' = [L_sing_vecs EXCEPT ![w] = None]
         /\ R_sing_vecs' = [R_sing_vecs EXCEPT ![w] = None]
         /\ sing_vals' = [sing_vals EXCEPT ![w] = None]
         /\ UNCHANGED <<svdLog, chan, bcastLog>>
         /\ IF EntersBcasts(w) THEN Goto(w, "bcast") ELSE Return(w)

compute_SVD(w) ==
    /\ w \in Workers
    /\ AtCall(w, "compute_SVD")
    /\ UNCHANGED eraVars
    /\ SVDPart(w, hankel_mat[w])
    /\ UNCHANGED <<hankel_mat, bar>>
    /\ NoHandles /\ NoIO
    /\ UNCHANGED <<Config, modeLog>>

compute_decomp(w) ==
    /\ w \in Workers
    /\ AtCall(w, "compute_decomp")
    /\ UNCHANGED eraVars
    /\ direct_vec_handles' = [direct_vec_handles EXCEPT ![w] = Cur(w).a1]
    /\ adjoint_vec_handles' = [adjoint_vec_handles EXCEPT ![w] = Cur(w).a2]
    /\ hankel_mat' = [hankel_mat EXCEPT ![w] = InnerProductMat(Cur(w).a2, Cur(w).a1)]
    /\ SVDPart(w, InnerProductMat(Cur(w).a2, Cur(w).a1))
    /\ UNCHANGED <<direct_vecs, adjoint_vecs, bar>>
    /\ NoIO
    /\ UNCHANGED <<Config, modeLog>>

compute_decomp_in_memory(w) ==
    /\ w \in Workers
    /\ AtCall(w, "compute_decomp_in_memory")
    /\ UNCHANGED eraVars
    /\ direct_vecs' = [direct_vecs EXCEPT ![w] = Cur(w).a1]
    /\ adjoint_vecs' = [adjoint_vecs EXCEPT ![w] = Cur(w).a2]
    /\ hankel_mat' = [hankel_mat EXCEPT ![w] = InnerProductMat(Cur(w).a2, Cur(w).a1)]
    /\ SVDPart(w, InnerProductMat(Cur(w).a2, Cur(w).a1))
    /\ UNCHANGED <<direct_vec_handles, adjoint_vec_handles, bar>>
    /\ NoIO
    /\ UNCHANGED <<Config, modeLog>>

\* a worker other than rank zero in the three broadcasts of a call: each field
\* is assigned what its broadcast returns, in program order
Bcasts(w) ==
    /\ L_sing_vecs' = [L_sing_vecs EXCEPT ![w] = chan[w][1]]
    /\ sing_vals' = [sing_vals EXCEPT ![w] = chan[w][2]]
    /\ R_sing_vecs' = [R_sing_vecs EXCEPT ![w] = chan[w][3]]
    /\ chan' = [chan EXCEPT ![w] = SubSeq(@, 4, Len(@))]
    /\ bcastLog' = BcastLogged(w)
    /\ Return(w)
    /\ UNCHANGED <<hankel_mat, bar, svdLog, modeLog, Config>>
    /\ NoHandles /\ NoIO

\* lines 171-173
SvdBcasts(w) ==
    /\ w \in Workers
    /\ pc[w] = "bcast" /\ Cur(w).op # "get_decomp" /\ BcastReady(w)
    /\ UNCHANGED eraVars
    /\ Bcasts(w)

(***************************************************************************)
(* BPOD.get_decomp                                                         *)
(***************************************************************************)
\* self.get_mat(source): the matrix kept at the source
GetMat(source) == store[source]

GetMatRaises(source) == store[source] = Absent

GetOnThisRank(w) == is_rank_zero(w)

\* line 79: the value handed to the third broadcast is self.L_sing_vecs
GetRPayload(l, r) == l

get_decomp(w) ==
    /\ w \in Workers
    /\ AtCall(w, "get_decomp")
    /\ UNCHANGED eraVars
    /\ LET c == Cur(w)
           entry(src) == [rank |-> w, call |-> ip[w], source |-> src, value |-> GetMat(src)]
           sent == GetRPayload(GetMat(c.a1), GetMat(c.a3))
       IN  IF ~get_mat
           THEN /\ Raise(w, "UndefinedError")
                /\ UNCHANGED <<L_sing_vecs, sing_vals, R_sing_vecs, getLog, chan, bcastLog>>
           ELSE IF GetOnThisRank(w)
           THEN IF GetMatRaises(c.a1)
                THEN /\ Raise(w, "IOError")
                     /\ getLog' = Append(getLog, entry(c.a1))
                     /\ UNCHANGED <<L_sing_vecs, sing_vals, R_sing_vecs, chan, bcastLog>>
                ELSE IF GetMatRaises(c.a2)
                THEN /\ Raise(w, "IOError")
                     /\ getLog' = getLog \o <<entry(c.a1), entry(c.a2)>>
                     /\ L_sing_vecs' = [L_sing_vecs EXCEPT ![w] = GetMat(c.a1)]
                     /\ UNCHANGED <<sing_vals, R_sing_vecs, chan, bcastLog>>
                ELSE IF GetMatRaises(c.a3)
                THEN /\ Raise(w, "IOError")
                     /\ getLog' = getLog \o <<entry(c.a1), entry(c.a2), entry(c.a3)>>
                     /\ L_sing_vecs' = [L_sing_vecs EXCEPT ![w] = GetMat(c.a1)]
                     /\ sing_vals' = [sing_vals EXCEPT ![w] = Squeeze(GetMat(c.a2))]
                     /\ UNCHANGED <<R_sing_vecs, chan, bcastLog>>
                ELSE /\ getLog' = getLog \o <<entry(c.a1), entry(c.a2), entry(c.a3)>>
                     /\ L_sing_vecs' = [L_sing_vecs EXCEPT ![w] = GetMat(c.a1)]
                     /\ sing_vals' = [sing_vals EXCEPT ![w] = Squeeze(GetMat(c.a2))]
                     /\ R_sing_vecs' = [R_sing_vecs EXCEPT ![w] =
                                           IF is_distributed THEN sent ELSE GetMat(c.a3)]
                     /\ IF is_distributed
                        THEN /\ chan' = BcastSent(w, <<GetMat(c.a1), Squeeze(GetMat(c.a2)),
                                                       sent>>)
                             /\ bcastLog' = BcastLogged(w)
                        ELSE UNCHANGED <<chan, bcastLog>>
                     /\ Return(w)
           ELSE /\ L_sing_vecs' = [L_sing_vecs EXCEPT ![w] = None]
                /\ sing_vals' = [sing_vals EXCEPT ![w] = None]
                /\ R_sing_vecs' = [R_sing_vecs EXCEPT ![w] = None]
                /\ UNCHANGED <<getLog, chan, bcastLog>>
                /\ IF EntersBcasts(w) THEN Goto(w, "bcast") ELSE Return(w)
    /\ UNCHANGED <<hankel_mat, bar, store, putLog, svdLog, modeLog, Config>>
    /\ NoHandles

\* lines 77-80
GetBcasts(w) ==
    /\ w \in Workers
    /\ pc[w] = "bcast" /\ Cur(w).op = "get_decomp" /\ BcastReady(w)
    /\ UNCHANGED eraVars
    /\ Bcasts(w)

(***************************************************************************)
(* BPOD.put_hankel_mat, put_L_sing_vecs, put_R_sing_vecs, put_sing_vals    *)
(* and put_decomp (which calls three of them in the order L, R, sing_vals) *)
(***************************************************************************)
PutOnEveryRank(w) == TRUE
PutOnThisRank(w) == is_rank_zero(w)

\* self.put_mat(mat, dest) raises at a destination that cannot be written
PutMatRaises(dest) == dest = "dBad"

\* the body of one put_* up to its parallel.sync()
PutStep(w, what, value, dest) ==
    IF ~put_mat
    THEN /\ Raise(w, "UndefinedError")
         /\ UNCHANGED <<store, putLog, bar>>
    ELSE IF PutOnThisRank(w) /\ PutMatRaises(dest)
    THEN /\ Raise(w, "IOError")
         /\ putLog' = Append(putLog, [rank |-> w, call |-> ip[w], what |-> what,
                                      dest |-> dest, value |-> value])
         /\ UNCHANGED <<store, bar>>
    ELSE /\ IF PutOnThisRank(w)
            THEN /\ store' = [store EXCEPT ![dest] = value]
                 /\ putLog' = Append(putLog, [rank |-> w, call |-> ip[w], what |-> what,
                                              dest |-> dest, value |-> value])
            ELSE UNCHANGED <<store, putLog>>
         /\ bar' = [bar EXCEPT ![w] = @ + 1]
         /\ Goto(w, "sync")

PutFrame == /\ UNCHANGED <<L_sing_vecs, sing_vals, R_sing_vecs, hankel_mat>>
            /\ UNCHANGED <<chan, bcastLog, getLog, svdLog, modeLog, Config>>
            /\ NoHandles

InPutDecomp(w, n) ==
    \/ n = 0 /\ AtCall(w, "put_decomp")
    \/ n > 0 /\ pc[w] = "put_decomp" /\ stage[w] = n

put_hankel_mat(w) ==
    /\ w \in Workers
    /\ AtCall(w, "put_hankel_mat")
    /\ UNCHANGED eraVars
    /\ PutStep(w, "hankel_mat", hankel_mat[w], Cur(w).a1)
    /\ PutFrame

put_L_sing_vecs(w) ==
    /\ w \in Workers
    /\ AtCall(w, "put_L_sing_vecs") \/ InPutDecomp(w, 0)
    /\ UNCHANGED eraVars
    /\ PutStep(w, "L_sing_vecs", L_sing_vecs[w], Cur(w).a1)
    /\ PutFrame

put_R_sing_vecs(w) ==
    /\ w \in Workers
    /\ AtCall(w, "put_R_sing_vecs") \/ InPutDecomp(w, 1)
    /\ UNCHANGED eraVars
    /\ PutStep(w, "R_sing_vecs", R_sing_vecs[w],
               IF Cur(w).op = "put_decomp" THEN Cur(w).a3 ELSE Cur(w).a1)
    /\ PutFrame

put_sing_vals(w) ==
    /\ w \in Workers
    /\ AtCall(w, "put_sing_vals") \/ InPutDecomp(w, 2)
    /\ UNCHANGED eraVars
    /\ PutStep(w, "sing_vals", sing_vals[w],
               IF Cur(w).op = "put_decomp" THEN Cur(w).a2 ELSE Cur(w).a1)
    /\ PutFrame

\* parallel.sync() returns; the put_* returns, to the script or to put_decomp
sync(w) ==
    /\ w \in Workers
    /\ pc[w] = "sync" /\ SyncReady(w)
    /\ UNCHANGED eraVars
    /\ IF Cur(w).op = "put_decomp" /\ stage[w] < 2
       THEN /\ pc' = [pc EXCEPT ![w] = "put_decomp"]
            /\ stage' = [stage EXCEPT ![w] = @ + 1]
            /\ UNCHANGED <<ip, err>>
       ELSE Return(w)
    /\ UNCHANGED <<store, putLog, bar>>
    /\ PutFrame

(***************************************************************************)
(* BPOD mode construction                                                  *)
(***************************************************************************)
\* _compute_direct_build_coeff_mat / _compute_adjoint_build_coeff_mat raise
\* unless the singular vectors and the singular values are there
CoeffRaisesNever(vecs, sv) == FALSE
CoeffRaises(vecs, sv) == vecs = None \/ sv = None

\* one compute_*_modes* call: given, kept = the argument and the field it is
\* kept in; vecs = R_sing_vecs (direct) or L_sing_vecs (adjoint)
ModesStep(w, kind, given, kept, vecs) ==
    LET now == IF given # "none" THEN given ELSE kept
    IN  IF now = "none"
        THEN /\ Raise(w, "UndefinedError")
             /\ UNCHANGED <<sing_vals, modeLog>>
        ELSE IF CoeffRaises(vecs, sing_vals[w])
        THEN /\ Raise(w, "UndefinedError")
             /\ UNCHANGED <<sing_vals, modeLog>>
        ELSE /\ sing_vals' = [sing_vals EXCEPT ![w] = Squeeze(@)]
             /\ modeLog' = [modeLog EXCEPT ![w] = Append(@,
                    [call |-> ip[w], kind |-> kind, vecs |-> now,
                     build_coeff_mat |-> BuildCoeffMat(vecs, Squeeze(sing_vals[w]))])]
             /\ Return(w)

Kept(f, w, given) == [f EXCEPT ![w] = IF given # "none" THEN given ELSE @]

ModesFrame == /\ UNCHANGED <<L_sing_vecs, R_sing_vecs, hankel_mat, svdLog, Config>>
              /\ NoCollective /\ NoIO

compute_direct_modes(w) ==
    /\ w \in Workers
    /\ AtCall(w, "compute_direct_modes")
    /\ UNCHANGED eraVars
    /\ direct_vec_handles' = Kept(direct_vec_handles, w, Cur(w).a1)
    /\ ModesStep(w, "direct", Cur(w).a1, direct_vec_handles[w], R_sing_vecs[w])
    /\ UNCHANGED <<adjoint_vec_handles, direct_vecs, adjoint_vecs>>
    /\ ModesFrame

compute_direct_modes_in_memory(w) ==
    /\ w \in Workers
    /\ AtCall(w, "compute_direct_modes_in_memory")
    /\ UNCHANGED eraVars
    /\ direct_vecs' = Kept(direct_vecs, w, Cur(w).a1)
    /\ ModesStep(w, "direct_in_memory", Cur(w).a1, direct_vecs[w], R_sing_vecs[w])
    /\ UNCHANGED <<adjoint_vec_handles, direct_vec_handles, adjoint_vecs>>
    /\ ModesFrame

compute_adjoint_modes(w) ==
    /\ w \in Workers
    /\ AtCall(w, "compute_adjoint_modes")
    /\ UNCHANGED eraVars
    /\ adjoint_vec_handles' = Kept(adjoint_vec_handles, w, Cur(w).a1)
    /\ ModesStep(w, "adjoint", Cur(w).a1, adjoint_vec_handles[w], L_sing_vecs[w])
    /\ UNCHANGED <<direct_vec_handles, direct_vecs, adjoint_vecs>>
    /\ ModesFrame

compute_adjoint_modes_in_memory(w) ==
    /\ w \in Workers
    /\ AtCall(w, "compute_adjoint_modes_in_memory")
    /\ UNCHANGED eraVars
    /\ adjoint_vecs' = Kept(adjoint_vecs, w, Cur(w).a1)
    /\ ModesStep(w, "adjoint_in_memory", Cur(w).a1, adjoint_vecs[w], L_sing_vecs[w])
    /\ UNCHANGED <<direct_vec_handles, adjoint_vec_handles, direct_vecs>>
    /\ ModesFrame

\* ranks a run may have
Ranks == 0 .. (MaxWorkers - 1)

BPODNext ==
    \E w \in Ranks :
        \/ compute_SVD(w)
        \/ compute_decomp(w)
        \/ compute_decomp_in_memory(w)
        \/ SvdBcasts(w)
        \/ get_decomp(w)
        \/ GetBcasts(w)
        \/ put_hankel_mat(w)
        \/ put_L_sing_vecs(w)
        \/ put_R_sing_vecs(w)
        \/ put_sing_vals(w)
        \/ sync(w)
        \/ compute_direct_modes(w)
        \/ compute_direct_modes_in_memory(w)
        \/ compute_adjoint_modes(w)
        \/ compute_adjoint_modes_in_memory(w)

\* the steps of worker w
WorkerNext(w) ==
    \/ compute_SVD(w) \/ compute_decomp(w) \/ compute_decomp_in_memory(w)
    \/ SvdBcasts(w) \/ get_decomp(w) \/ GetBcasts(w)
    \/ put_hankel_mat(w) \/ put_L_sing_vecs(w) \/ put_R_sing_vecs(w)
    \/ put_sing_vals(w) \/ sync(w)
    \/ compute_direct_modes(w) \/ compute_direct_modes_in_memory(w)
    \/ compute_adjoint_modes(w) \/ compute_adjoint_modes_in_memory(w)

(***************************************************************************)
(* ERA values.  An array is its shape and its entries in row-major order;  *)
(* the array with no axis stands for None.  An optional integer (mc, mo,   *)
(* num_time_steps, ...) is the empty set for None, or {n}.                 *)
(***************************************************************************)
Arr(shape, data) == [shape |-> shape, data |-> data]

ENone == Arr(<<>>, <<>>)

Val(opt) == CHOOSE n \in opt : TRUE

RECURSIVE Prod(_)
Prod(shape) == IF shape = <<>> THEN 1 ELSE Head(shape) * Prod(Tail(shape))

NaN == 0 - 1

IsFinite(a) == \A k \in DOMAIN a.data : a.data[k] # NaN

\* a.reshape(shape): same entries in the same order under a new shape
Reshape(a, shape) == Arr(shape, a.data)

\* a[:-1]: all but the last index of the first axis
DropLast(a) ==
    LET n == IF a.shape[1] = 0 THEN 0 ELSE a.shape[1] - 1
    IN  Arr(<<n>> \o Tail(a.shape), SubSeq(a.data, 1, n * Prod(Tail(a.shape))))

\* Markovs[t][o][i] of a 3-axis array, indices from 0
At3(a, t, o, i) == a.data[(t * a.shape[2] + o) * a.shape[3] + i + 1]

\* m[r][c] of a matrix, indices from 0
At2(m, r, c) == m.data[r * m.shape[2] + c + 1]

(***************************************************************************)
(* ERA._set_Markovs                                                        *)
(***************************************************************************)
SetMarkovsRaises(Markovs) == Len(Markovs.shape) > 3

Reshaped(Markovs) ==
    CASE Len(Markovs.shape) = 1 -> Reshape(Markovs, <<Markovs.shape[1], 1, 1>>)
      [] Len(Markovs.shape) = 2 -> Reshape(Markovs, <<Markovs.shape[1], Markovs.shape[2], 1>>)
      [] OTHER -> Markovs

IsOddNever(n) == FALSE
IsOdd(n) == n % 2 # 0

\* the fields _set_Markovs leaves behind
set_Markovs(self, Markovs) ==
    IF SetMarkovsRaises(Markovs)
    THEN [self EXCEPT !.Markovs = Markovs]
    ELSE LET M == Reshaped(Markovs)
         IN  IF IsOdd(M.shape[1])
             THEN [self EXCEPT !.Markovs = DropLast(M),
                               !.num_time_steps = {M.shape[1] - 1},
                               !.num_Markovs = {M.shape[2]},
                               !.num_inputs = {M.shape[3]}]
             ELSE [self EXCEPT !.Markovs = M,
                               !.num_time_steps = {M.shape[1]},
                               !.num_Markovs = {M.shape[2]},
                               !.num_inputs = {M.shape[3]}]

(***************************************************************************)
(* ERA._assemble_Hankel                                                    *)
(***************************************************************************)
\* lines 295-298: both block counts are replaced when either is None
DefaultBlocks(T) == (T - 2) \div 4

Blocks(self) ==
    IF self.mo = {} \/ self.mc = {}
    THEN [self EXCEPT !.mo = {DefaultBlocks(Val(self.num_time_steps))},
                      !.mc = {DefaultBlocks(Val(self.num_time_steps))}]
    ELSE self

\* lines 300-302
TooManyBlocksLax(mo, mc, T) == (mo + mc) > T
TooManyBlocks(mo, mc, T) == (mo + mc) + 2 > T

\* N.zeros(shape) raises on a negative dimension
ZerosRaises(rows, cols) == rows < 0 \/ cols < 0

\* lines 309-318: the blocks are visited row by row; block number k (from 0)
\* is block (k div mc, k mod mc) and reads Markovs[2*(row+col)] for
\* Hankel_mat, then Markovs[2*(row+col)+1] for Hankel_mat2
FirstIndexShifted(row, col) == 2 * (row + col) + 1
FirstIndex(row, col) == 2 * (row + col)

SecondIndex(row, col) == 2 * (row + col) + 1

\* number of blocks whose first (second) read is reached and is inside Markovs
RECURSIVE BlocksDone(_, _, _, _, _)
BlocksDone(k, mo, mc, len, second) ==
    IF k >= mo * mc THEN k
    ELSE LET row == k \div mc
             col == k % mc
         IN  IF FirstIndex(row, col) >= len THEN k
             ELSE IF SecondIndex(row, col) >= len
                  THEN (IF second THEN k ELSE k + 1)
                  ELSE BlocksDone(k + 1, mo, mc, len, second)

\* the matrix after `done` blocks have been written into N.zeros((rows, cols))
HankelFill(M, mo, mc, no, ni, done, shift) ==
    LET rows == no * mo
        cols == ni * mc
    IN  Arr(<<rows, cols>>,
            [n \in 1 .. rows * cols |->
                LET r == (n - 1) \div cols
                    c == (n - 1) % cols
                    row == r \div no
                    col == c \div ni
                IN  IF row * mc + col < done
                    THEN At3(M, (IF shift THEN SecondIndex(row, col)
                                          ELSE FirstIndex(row, col)), r % no, c % ni)
                    ELSE 0])

\* outcome of _assemble_Hankel on an instance whose Markovs are set
AssembleRaises(self) ==
    LET s == Blocks(self)
        mo == Val(s.mo)
        mc == Val(s.mc)
        T == Val(s.num_time_steps)
    IN  IF TooManyBlocks(mo, mc, T) THEN "ValueError"
        ELSE IF ZerosRaises(Val(s.num_Markovs) * mo, Val(s.num_inputs) * mc) THEN "ValueError"
        ELSE IF BlocksDone(0, mo, mc, s.Markovs.shape[1], TRUE) < mo * mc THEN "IndexError"
        ELSE "none"

assemble_Hankel(self) ==
    LET s == Blocks(self)
        mo == Val(s.mo)
        mc == Val(s.mc)
        T == Val(s.num_time_steps)
        no == Val(s.num_Markovs)
        ni == Val(s.num_inputs)
    IN  IF TooManyBlocks(mo, mc, T) \/ ZerosRaises(no * mo, ni * mc)
        THEN s
        ELSE [s EXCEPT
                !.Hankel_mat = HankelFill(s.Markovs, mo, mc, no, ni,
                                  BlocksDone(0, mo, mc, s.Markovs.shape[1], FALSE), FALSE),
                !.Hankel_mat2 = HankelFill(s.Markovs, mo, mc, no, ni,
                                  BlocksDone(0, mo, mc, s.Markovs.shape[1], TRUE), TRUE)]

(***************************************************************************)
(* ERA._compute_ROM.  util.svd and the products that give A, B and C are   *)
(* not computed here: a result is named by what it was computed from.      *)
(***************************************************************************)
Tok(f, of) == [f |-> f, of |-> of]

TNone == Tok("None", ENone)

ESvdRaises(H) == ~IsFinite(H)

ESvd(H) == [L |-> Tok("L", H), S |-> Tok("S", H), R |-> Tok("R", H)]

Derived(f, H, H2, r, n) == [f |-> f, of |-> H, of2 |-> H2, r |-> r, n |-> n]

DNone == Derived("None", ENone, ENone, 0, 0)

\* lines 208-217
ROM(self, num_states) ==
    [A |-> Derived("A", self.Hankel_mat, self.Hankel_mat2, num_states, 0),
     B |-> Derived("B", self.Hankel_mat, ENone, num_states, Val(self.num_inputs)),
     C |-> Derived("C", self.Hankel_mat, ENone, num_states, Val(self.num_Markovs))]

\* An eigenvalue is <<re, im>> in units of one half.
MagnitudeAtLeastOne(e) == e[1] * e[1] + e[2] * e[2] >= 4

\* line 219, `eigenvalue >= 1.`: numpy orders complex numbers by real part,
\* then by imaginary part
AtLeastOne(e) == e[1] > 2 \/ (e[1] = 2 /\ e[2] >= 0)

\* the spectra A is given: inside the unit circle; an eigenvalue 1; an
\* eigenvalue -2; an eigenvalue 2i
EigArgs == {{<<1, 0>>}, {<<1, 0>>, <<2, 0>>}, {<<0 - 4, 0>>}, {<<0, 4>>}}

Warns(eigs, verbose) == (\E e \in eigs : AtLeastOne(e)) /\ verbose

\* lines 200-201: the kwargs of the call replace the constructor's
CallBlocks(self, mc, mo) == [self EXCEPT !.mc = mc, !.mo = mo]

\* the instance after _compute_ROM and the exception that left it ("none" if
\* it reached line 219)
compute_ROM_impl(self, Markovs, num_states, mc, mo) ==
    LET s1 == set_Markovs(self, Markovs)
        s2 == CallBlocks(s1, mc, mo)
        s3 == assemble_Hankel(s2)
        svd == ESvd(s3.Hankel_mat)
        s4 == [s3 EXCEPT !.L_sing_vecs = svd.L, !.sing_vals = svd.S, !.R_sing_vecs = svd.R]
        rom == ROM(s4, num_states)
        s5 == [s4 EXCEPT !.A = rom.A, !.B = rom.B, !.C = rom.C]
    IN  IF SetMarkovsRaises(Markovs)
        THEN [self |-> s1, raised |-> "RuntimeError"]
        ELSE IF AssembleRaises(s2) # "none"
        THEN [self |-> s3, raised |-> AssembleRaises(s2)]
        ELSE IF ESvdRaises(s3.Hankel_mat)
        THEN [self |-> s3, raised |-> "NumericalError"]
        ELSE [self |-> s5, raised |-> "none"]

\* N.linalg.eig(self.A)[0] at line 219: the eigenvalues A can have, none when
\* the line is not reached
EigsOfA(res) == IF res.raised = "none" THEN EigArgs ELSE {{}}

Outcome(op, Markovs, mc, mo, res, eigs, ret) ==
    [op |-> op, arg |-> Markovs, mc |-> mc, mo |-> mo, raised |-> res.raised,
     warned |-> Warns(eigs, res.self.verbose), eigs |-> eigs, ret |-> ret]

NoRet == [A |-> DNone, B |-> DNone, C |-> DNone]

Ret(self) == [A |-> self.A, B |-> self.B, C |-> self.C]

\* ERA.compute_ROM: _compute_ROM, then put_ROM
compute_ROM(Markovs, num_states, mc, mo) ==
    LET res == compute_ROM_impl(era, Markovs, num_states, mc, mo)
    IN  /\ eraCalls < MaxERACalls
        /\ eraCalls' = eraCalls + 1
        /\ era' = res.self
        /\ \E eigs \in EigsOfA(res) :
              eraOut' = Outcome("compute_ROM", Markovs, mc, mo, res, eigs, NoRet)
        /\ eraStore' = IF res.raised = "none" THEN Ret(res.self) ELSE eraStore
        /\ UNCHANGED <<eraCtor, fmtOut, bpodVars>>

\* ERA.compute_ROM_and_return
compute_ROM_and_return(Markovs, num_states, mc, mo) ==
    LET res == compute_ROM_impl(era, Markovs, num_states, mc, mo)
    IN  /\ eraCalls < MaxERACalls
        /\ eraCalls' = eraCalls + 1
        /\ era' = res.self
        /\ \E eigs \in EigsOfA(res) :
              eraOut' = Outcome("compute_ROM_and_return", Markovs, mc, mo, res, eigs,
                                IF res.raised = "none" THEN Ret(res.self) ELSE NoRet)
        /\ UNCHANGED <<eraStore, eraCtor, fmtOut, bpodVars>>

(***************************************************************************)
(* ERA inputs                                                              *)
(***************************************************************************)
Fill(n, base, nan) == [k \in 1 .. n |-> IF nan /\ k = 1 THEN NaN ELSE base + k]

Input(shape, base, nan) == Arr(shape, Fill(Prod(shape), base, nan))

Lengths == 0 .. MaxT

Tails == {<<>>, <<2>>, <<1, 2>>, <<1, 1, 1>>}

Fills == {<<0, FALSE>>, <<100, FALSE>>, <<0, TRUE>>}

\* arrays of every length, number of axes and filling
MarkovArgs == {Input(<<T>> \o tail, f[1], f[2]) : T \in Lengths, tail \in Tails, f \in Fills}

\* the arrays handed to compute_ROM: two lengths, and at the greater length
\* also other entries, a non-finite entry and a fourth axis
ROMArgs == {Input(<<MaxT - 2, 1, 2>>, 0, FALSE), Input(<<MaxT, 1, 2>>, 0, FALSE),
            Input(<<MaxT, 1, 2>>, 100, FALSE), Input(<<MaxT, 1, 2>>, 0, TRUE),
            Input(<<MaxT, 1, 1, 1>>, 0, FALSE)}

BlockArgs == {{}, {2}, {3}}

BlockPairs == {<<{}, {}>>, <<{2}, {2}>>, <<{3}, {3}>>, <<{2}, {3}>>}

CtorBlockArgs == {{}, {2}}

NumStatesArgs == {1}

\* make_sampled_format has not been called
NoFmt == [times |-> <<>>, Markovs |-> ENone, dt_tol |-> 0, raised |-> "none",
          returned |-> FALSE, time_steps |-> <<>>, Markovs_corr |-> ENone, dt |-> 0]

Fresh(mc, mo, verbose) ==
    [mc |-> mc, mo |-> mo, verbose |-> verbose,
     A |-> DNone, B |-> DNone, C |-> DNone,
     sing_vals |-> TNone, L_sing_vecs |-> TNone, R_sing_vecs |-> TNone,
     num_Markovs |-> {}, num_inputs |-> {}, num_time_steps |-> {},
     Hankel_mat |-> ENone, Hankel_mat2 |-> ENone, Markovs |-> ENone]

ERAFields ==
    /\ era = Fresh(eraCtor.mc, eraCtor.mo, eraCtor.verbose)
    /\ eraOut = [op |-> "__init__", arg |-> ENone, mc |-> eraCtor.mc, mo |-> eraCtor.mo,
                 raised |-> "none", warned |-> FALSE, eigs |-> {}, ret |-> NoRet]
    /\ eraStore = NoRet
    /\ eraCalls = 0

ERAConstructed == ERAFields /\ fmtOut = NoFmt

ERAInit ==
    /\ eraCtor \in {[mc |-> b, mo |-> b, verbose |-> v] : b \in CtorBlockArgs, v \in BOOLEAN}
    /\ ERAConstructed

ERANext ==
    \E Markovs \in ROMArgs, num_states \in NumStatesArgs, b \in BlockPairs :
        \/ compute_ROM(Markovs, num_states, b[1], b[2])
        \/ compute_ROM_and_return(Markovs, num_states, b[1], b[2])

(***************************************************************************)
(* _set_Markovs and _assemble_Hankel called one at a time, as the tests of *)
(* the two methods do, on arrays of every shape                            *)
(***************************************************************************)
NoOutcome(op, Markovs, raised) ==
    [op |-> op, arg |-> Markovs, mc |-> {}, mo |-> {}, raised |-> raised, warned |-> FALSE,
     eigs |-> {}, ret |-> NoRet]

SetMarkovs(Markovs) ==
    /\ eraCalls < MaxERACalls
    /\ eraCalls' = eraCalls + 1
    /\ era' = set_Markovs(era, Markovs)
    /\ eraOut' = NoOutcome("_set_Markovs", Markovs,
                           IF SetMarkovsRaises(Markovs) THEN "RuntimeError" ELSE "none")
    /\ UNCHANGED <<eraStore, eraCtor, fmtOut, bpodVars>>

\* _compute_ROM calls _assemble_Hankel right after _set_Markovs has returned
AssembleHankel ==
    /\ eraCalls < MaxERACalls
    /\ eraOut.op = "_set_Markovs" /\ eraOut.raised = "none"
    /\ eraCalls' = eraCalls + 1
    /\ era' = assemble_Hankel(era)
    /\ eraOut' = NoOutcome("_assemble_Hankel", ENone, AssembleRaises(era))
    /\ UNCHANGED <<eraStore, eraCtor, fmtOut, bpodVars>>

AssembleInit ==
    /\ eraCtor \in [mc : BlockArgs \cup CtorBlockArgs, mo : BlockArgs \cup CtorBlockArgs,
                     verbose : {TRUE}]
    /\ ERAConstructed

AssembleNext ==
    \/ \E Markovs \in MarkovArgs : SetMarkovs(Markovs)
    \/ AssembleHankel

(***************************************************************************)
(* make_sampled_format.  A time is a whole number of units, and so are     *)
(* dt_tol and dt; a 1-axis array of times is an Arr like any other.        *)
(***************************************************************************)
Abs(x) == IF x < 0 THEN 0 - x ELSE x

\* N.diff(times)
Diff(times) == [k \in 1 .. Len(times) - 1 |-> times[k + 1] - times[k]]

\* line 54
NotEquallySpaced(times, dt, dt_tol) ==
    \E k \in DOMAIN Diff(times) : Abs(Diff(times)[k] - dt) > dt_tol

\* N.round(num / den) for den # 0: the nearest integer, a half goes to the
\* even neighbour
Round(num, den) ==
    LET n == IF den < 0 THEN 0 - num ELSE num
        d == Abs(den)
        q == n \div d
        r == n - q * d
    IN  IF 2 * r < d THEN q
        ELSE IF 2 * r > d THEN q + 1
        ELSE IF q % 2 = 0 THEN q ELSE q + 1

\* what a quotient by dt = 0, stored into an array of integers, can come out as
NotANumber == {0, 0 - 2147483647}

\* line 57: N.round((times-times[0])/dt)
TimeSteps(times, dt, junk) ==
    Arr(<<Len(times)>>,
        [k \in DOMAIN times |-> IF dt = 0 THEN junk ELSE Round(times[k] - times[1], dt)])

\* a[1:]: all but the first index of the first axis
DropFirst(a) ==
    LET n == IF a.shape[1] = 0 THEN 0 ELSE a.shape[1] - 1
    IN  Arr(<<n>> \o Tail(a.shape),
            SubSeq(a.data, Len(a.data) - n * Prod(Tail(a.shape)) + 1, Len(a.data)))

\* lines 61-64: what is assigned to corr[::2] and to corr[1::2]
EvenPart(a) == DropLast(a)

OddPartWrong(a) == DropLast(a)
OddPart(a) == DropFirst(a)

\* lines 59-64: N.zeros of n entries along the first axis, then [::2] = even
\* and [1::2] = odd
Interleaved(even, odd, n) ==
    LET blk == Prod(Tail(even.shape))
    IN  Arr(<<n>> \o Tail(even.shape),
            [i \in 1 .. n * blk |->
                LET j == (i - 1) \div blk
                    from == IF j % 2 = 0 THEN even ELSE odd
                IN  from.data[(j \div 2) * blk + ((i - 1) % blk) + 1]])

\* the outcome of make_sampled_format(times, Markovs, dt_tol)
SampledFormat(times, Markovs, dt_tol, junk) ==
    LET fail(e) == [NoFmt EXCEPT !.times = times, !.Markovs = Markovs,
                                 !.dt_tol = dt_tol, !.raised = e]
        num_time_steps == Markovs.shape[1]
        dt == times[2] - times[1]
        time_steps == TimeSteps(times, dt, junk)
        num_time_steps_corr == (num_time_steps - 1) * 2
    IN  IF Len(Markovs.shape) # 3 THEN fail("ValueError")
        ELSE IF num_time_steps # Len(times) THEN fail("RuntimeError")
        ELSE IF Len(times) < 2 THEN fail("IndexError")
        ELSE IF NotEquallySpaced(times, dt, dt_tol) THEN fail("ValueError")
        ELSE [times |-> times, Markovs |-> Markovs, dt_tol |-> dt_tol,
              raised |-> "none", returned |-> TRUE,
              time_steps |-> Interleaved(EvenPart(time_steps), OddPart(time_steps),
                                         num_time_steps_corr).data,
              Markovs_corr |-> Interleaved(EvenPart(Markovs), OddPart(Markovs),
                                           num_time_steps_corr),
              dt |-> dt]

\* a call that has been made and has not run yet
Called(times, Markovs, dt_tol) ==
    [NoFmt EXCEPT !.times = times, !.Markovs = Markovs, !.dt_tol = dt_tol,
                  !.raised = "pending"]

\* the call runs; the function keeps nothing between calls
make_sampled_format ==
    /\ fmtOut.raised = "pending"
    /\ \E junk \in NotANumber :
          fmtOut' = SampledFormat(fmtOut.times, fmtOut.Markovs, fmtOut.dt_tol, junk)
    /\ UNCHANGED <<era, eraCtor, eraOut, eraStore, eraCalls, bpodVars>>

\* the inputs: every series of at most MaxSamples times in 0 .. MaxTime,
\* Markovs of every length with 3 axes or 2, dt_tol of less than a unit or one
TimesArgs == UNION {[1 .. n -> 0 .. MaxTime] : n \in 0 .. MaxSamples}

SampledMarkovArgs == {Input(<<n>> \o tail, 0, FALSE) : n \in 0 .. MaxSamples,
                                                       tail \in {<<1, 2>>, <<2>>}}

DtTolArgs == {0, 1}

SampledInit ==
    \E times \in TimesArgs, Markovs \in SampledMarkovArgs, dt_tol \in DtTolArgs :
        fmtOut = Called(times, Markovs, dt_tol)

SampledNext == make_sampled_format

\* the BPOD run, next to an ERA instance that is constructed and not used
ERAIdle ==
    /\ eraCtor = [mc |-> {}, mo |-> {}, verbose |-> TRUE]
    /\ ERAConstructed

Init == BPODInit /\ ERAIdle

Next == BPODNext

Spec == Init /\ [][Next]_vars

\* scripts of the calls that use collectives, run to their end: every worker
\* is a process of its own, and one that can take a step takes it
CollectiveCalls ==
    {c \in Calls : c.op \in {"compute_decomp", "compute_decomp_in_memory", "compute_SVD",
                             "get_decomp", "put_hankel_mat", "put_L_sing_vecs",
                             "put_R_sing_vecs", "put_sing_vals", "put_decomp"}}

InitCollective ==
    /\ nprocs \in 1 .. MaxWorkers
    /\ put_mat \in BOOLEAN
    /\ get_mat \in BOOLEAN
    /\ prog \in [1 .. MaxCalls -> CollectiveCalls]
    /\ BPODConstructed
    /\ ERAIdle

CollectiveNext ==
    \E w \in Ranks :
        \/ compute_SVD(w)
        \/ compute_decomp(w)
        \/ compute_decomp_in_memory(w)
        \/ SvdBcasts(w)
        \/ get_decomp(w)
        \/ GetBcasts(w)
        \/ put_hankel_mat(w)
        \/ put_L_sing_vecs(w)
        \/ put_R_sing_vecs(w)
        \/ put_sing_vals(w)
        \/ sync(w)

SpecCollective ==
    InitCollective /\ [][CollectiveNext]_vars /\ \A w \in Ranks : WF_vars(WorkerNext(w))

\* the ERA instance alone, next to a BPOD run that has not started
BPODIdle ==
    /\ nprocs = 1 /\ put_mat = TRUE /\ get_mat = TRUE
    /\ prog = [k \in 1 .. MaxCalls |-> Call("compute_SVD", "-", "-", "-")]
    /\ BPODConstructed

InitERA == ERAInit /\ BPODIdle

SpecERA == InitERA /\ [][ERANext]_vars

InitAssemble == AssembleInit /\ BPODIdle

SpecAssemble == InitAssemble /\ [][AssembleNext]_vars

\* make_sampled_format alone
InitSampled ==
    /\ eraCtor = [mc |-> {}, mo |-> {}, verbose |-> TRUE]
    /\ ERAFields
    /\ SampledInit
    /\ BPODIdle

SpecSampled == InitSampled /\ [][SampledNext]_vars

(***************************************************************************)
(* Properties                                                              *)
(***************************************************************************)
\* worker w has returned from call number ip[w]-1, one of ops, and has not
\* started the next call
JustReturned(w, ops) == pc[w] = "idle" /\ ip[w] > 1 /\ prog[ip[w] - 1].op \in ops

ComputeOps == {"compute_decomp", "compute_decomp_in_memory", "compute_SVD"}

PutOps == {"put_hankel_mat", "put_L_sing_vecs", "put_R_sing_vecs", "put_sing_vals",
           "put_decomp"}

DirectModeOps == {"compute_direct_modes", "compute_direct_modes_in_memory"}

AdjointModeOps == {"compute_adjoint_modes", "compute_adjoint_modes_in_memory"}

\* C1: the SVD of compute_decomp / compute_decomp_in_memory / compute_SVD is
\* taken by rank zero only and once per call; a worker that has returned from
\* the call holds the L, sing_vals and R of rank zero's SVD of hankel_mat;
\* a run that is not distributed broadcasts nothing.
C1_SvdOnceThenSameOnAll ==
    /\ \A k \in DOMAIN svdLog : svdLog[k].rank = 0
    /\ \A j, k \in DOMAIN svdLog : j # k => svdLog[j].call # svdLog[k].call
    /\ \A w \in Workers :
          JustReturned(w, ComputeOps) =>
             \E k \in DOMAIN svdLog :
                /\ svdLog[k].call = ip[w] - 1
                /\ svdLog[k].mat = hankel_mat[w]
                /\ L_sing_vecs[w] = svdLog[k].res.L
                /\ sing_vals[w] = svdLog[k].res.S
                /\ R_sing_vecs[w] = svdLog[k].res.R
    /\ ~is_distributed => \A w \in Workers : bcastLog[w] = <<>>

C1_Witness ==
    /\ is_distributed
    /\ \A w \in Workers : JustReturned(w, {"compute_decomp"}) /\ ip[w] = 2
    /\ R_sing_vecs[1] = Svd(InnerProductMat("Y", "X")).R

\* C2: after get_decomp only rank zero has called get_mat, and a worker that
\* has returned holds the three matrices loaded from the three sources.
C2_GetDecompLoadsAll ==
    /\ \A k \in DOMAIN getLog : getLog[k].rank = 0
    /\ \A w \in Workers :
          JustReturned(w, {"get_decomp"}) =>
             LET c == prog[ip[w] - 1]
                 loaded(src) == CHOOSE e \in {getLog[k] : k \in DOMAIN getLog} :
                                    e.call = ip[w] - 1 /\ e.source = src
             IN  /\ L_sing_vecs[w] = loaded(c.a1).value
                 /\ sing_vals[w].id = loaded(c.a2).value.id
                 /\ R_sing_vecs[w] = loaded(c.a3).value

\* the save steps of the script in order: what is saved and where
RECURSIVE SaveSteps(_)
SaveSteps(k) ==
    IF k > MaxCalls THEN <<>>
    ELSE LET c == prog[k]
             step(what, dest) == [call |-> k, what |-> what, dest |-> dest]
         IN  (CASE c.op = "put_hankel_mat" -> <<step("hankel_mat", c.a1)>>
                [] c.op = "put_L_sing_vecs" -> <<step("L_sing_vecs", c.a1)>>
                [] c.op = "put_R_sing_vecs" -> <<step("R_sing_vecs", c.a1)>>
                [] c.op = "put_sing_vals" -> <<step("sing_vals", c.a1)>>
                [] c.op = "put_decomp" -> <<step("L_sing_vecs", c.a1),
                                            step("R_sing_vecs", c.a3),
                                            step("sing_vals", c.a2)>>
                [] OTHER -> <<>>) \o SaveSteps(k + 1)

\* number of save steps worker w has returned from
SavesReturned(w) == IF pc[w] = "sync" THEN bar[w] - 1 ELSE bar[w]

\* C3: put_mat is called by rank zero only, once per save step and in the
\* order of the save steps; a worker has returned from a save step only after
\* rank zero's put_mat of that step; with put_mat None a worker reaching a
\* save step raises UndefinedError, nothing is written and no barrier is
\* entered.
C3_WriteOnRankZeroThenBarrier ==
    /\ \A k \in DOMAIN putLog :
          /\ putLog[k].rank = 0
          /\ k <= Len(SaveSteps(1))
          /\ putLog[k].call = SaveSteps(1)[k].call
          /\ putLog[k].what = SaveSteps(1)[k].what
          /\ putLog[k].dest = SaveSteps(1)[k].dest
    /\ \A w \in Workers : SavesReturned(w) <= Len(putLog)
    /\ ~put_mat =>
          /\ putLog = <<>>
          /\ store = InitStore
          /\ \A w \in Workers :
                /\ bar[w] = 0
                /\ \A k \in 1 .. MaxCalls : k < ip[w] => prog[k].op \notin PutOps
                /\ (pc[w] = "raised" /\ prog[ip[w]].op \in PutOps) => err[w] = "UndefinedError"

C3_Witness ==
    /\ is_distributed /\ put_mat
    /\ JustReturned(1, {"put_decomp"})
    /\ Len(putLog) >= 3
    /\ store["dS"] = sing_vals[0]

\* worker w takes a step
Steps(w) == pc'[w] # pc[w] \/ ip'[w] # ip[w]

\* C4: a compute_direct_modes* call on an instance without R_sing_vecs or
\* sing_vals, and a compute_adjoint_modes* call on one without L_sing_vecs or
\* sing_vals, raises UndefinedError and does not reach vec_ops' mode
\* synthesis; right after a compute_decomp that returned, the call given its
\* vectors reaches mode synthesis.
C4_ModesNeedDecomp ==
    [][\A w \in Workers :
          /\ ( /\ HasCall(w) /\ Steps(w)
               /\ \/ Cur(w).op \in DirectModeOps
                     /\ (R_sing_vecs[w] = None \/ sing_vals[w] = None)
                  \/ Cur(w).op \in AdjointModeOps
                     /\ (L_sing_vecs[w] = None \/ sing_vals[w] = None) )
             => /\ pc'[w] = "raised" /\ err'[w] = "UndefinedError"
                /\ modeLog' = modeLog
          /\ ( /\ JustReturned(w, {"compute_decomp", "compute_decomp_in_memory"})
               /\ HasCall(w) /\ Steps(w)
               /\ Cur(w).op \in DirectModeOps \cup AdjointModeOps
               /\ Cur(w).a1 # "none" )
             => /\ pc'[w] = "idle" /\ err'[w] = "none"
                /\ Len(modeLog'[w]) = Len(modeLog[w]) + 1
                /\ modeLog'[w][Len(modeLog'[w])].call = ip[w]
                /\ modeLog'[w][Len(modeLog'[w])].vecs = Cur(w).a1
      ]_vars

C4_Witness ==
    \E w \in Workers :
        /\ pc[w] = "raised" /\ err[w] = "UndefinedError"
        /\ prog[ip[w]].op = "compute_direct_modes" /\ prog[ip[w]].a1 = "X"
        /\ ip[w] = 2 /\ prog[1].op = "put_hankel_mat"
        /\ R_sing_vecs[w] = None
        /\ modeLog[w] = <<>>

ROMOps == {"compute_ROM", "compute_ROM_and_return"}

\* the fields a run of _compute_ROM computes
Artifacts(self) ==
    <<self.Markovs, self.Hankel_mat, self.Hankel_mat2,
      self.L_sing_vecs, self.sing_vals, self.R_sing_vecs, self.A, self.B, self.C>>

Unfactored(self) ==
    /\ self.L_sing_vecs = TNone /\ self.sing_vals = TNone /\ self.R_sing_vecs = TNone
    /\ self.A = DNone /\ self.B = DNone /\ self.C = DNone

\* C5: after a compute_ROM / compute_ROM_and_return that failed in
\* normalization or in the mo+mc check, the Markovs, the Hankel matrices, L,
\* sing_vals, R, A, B and C the ERA instance holds are those of one successful
\* run of _compute_ROM, or it holds no factored artifact.
C5_NoMixedArtifacts ==
    \/ ~(eraOut.op \in ROMOps /\ eraOut.raised \in {"RuntimeError", "ValueError"})
    \/ Unfactored(era)
    \/ \E Markovs \in ROMArgs, num_states \in NumStatesArgs, b \in BlockPairs :
          LET run == compute_ROM_impl(Fresh({}, {}, TRUE), Markovs, num_states, b[1], b[2])
          IN  run.raised = "none" /\ Artifacts(era) = Artifacts(run.self)

\* the last call was a compute_ROM* that got past _set_Markovs
Normalized == eraOut.op \in ROMOps /\ eraOut.raised # "RuntimeError"

\* C6: a compute_ROM / compute_ROM_and_return in which mo+mc+2 exceeds the
\* trimmed number of samples raises ValueError and leaves the Hankel matrices,
\* the SVD and the written A, B, C as they were; 6 samples with mo=mc=3 fail,
\* 6 samples with mo=mc=2 pass the check.
C6_TooManyBlocksFailsEarly ==
    [][(eraCalls' = eraCalls + 1 /\ Normalized') =>
          LET T == Val(era'.num_time_steps)
              mo == Val(era'.mo)
              mc == Val(era'.mc)
          IN  /\ (mo + mc + 2 > T) =>
                    /\ eraOut'.raised = "ValueError"
                    /\ era'.Hankel_mat = era.Hankel_mat
                    /\ era'.Hankel_mat2 = era.Hankel_mat2
                    /\ era'.L_sing_vecs = era.L_sing_vecs
                    /\ era'.sing_vals = era.sing_vals
                    /\ era'.R_sing_vecs = era.R_sing_vecs
                    /\ eraStore' = eraStore
                    /\ eraOut'.ret = NoRet
              /\ (T = 6 /\ eraOut'.mo = {3} /\ eraOut'.mc = {3}) => eraOut'.raised = "ValueError"
              /\ (T = 6 /\ eraOut'.mo = {2} /\ eraOut'.mc = {2}) => eraOut'.raised # "ValueError"
      ]_vars

C6_Witness ==
    /\ eraOut.op = "compute_ROM" /\ eraOut.raised = "ValueError"
    /\ eraOut.mo = {3} /\ eraOut.mc = {3} /\ era.num_time_steps = {6}
    /\ era.Hankel_mat # ENone /\ era.Hankel_mat.shape = <<2, 4>>
    /\ eraStore # NoRet

C8_SetMarkovs ==
    eraOut.op = "_set_Markovs" =>
        LET In == eraOut.arg
            n == Len(In.shape)
            T == In.shape[1]
            no == IF n >= 2 THEN In.shape[2] ELSE 1
            ni == IF n >= 3 THEN In.shape[3] ELSE 1
            kept == IF T % 2 = 1 THEN T - 1 ELSE T
        IN  IF n > 3
            THEN eraOut.raised = "RuntimeError"
            ELSE /\ eraOut.raised = "none"
                 /\ era.Markovs.shape = <<kept, no, ni>>
                 /\ era.num_time_steps = {kept}
                 /\ kept % 2 = 0
                 /\ era.num_time_steps = {era.Markovs.shape[1]}
                 /\ era.Markovs.data = SubSeq(In.data, 1, kept * no * ni)
                 /\ (T % 2 = 0) => era.Markovs.data = In.data

C8_Witness ==
    /\ eraOut.op = "_set_Markovs" /\ eraOut.raised = "none"
    /\ eraOut.arg.shape = <<7, 2>>
    /\ era.Markovs.shape = <<6, 2, 1>>
    /\ era.num_time_steps = {6}

\* C9: the block counts of the assembly are the caller's: those given to the
\* call, else those given to the constructor, else floor((T-2)/4).
C9_CallerBlocksUsed ==
    (eraOut.op \in ROMOps /\ eraOut.raised = "none") =>
        LET T == Val(era.num_time_steps)
            no == Val(era.num_Markovs)
            ni == Val(era.num_inputs)
            mo == IF eraOut.mo # {} /\ eraOut.mc # {} THEN Val(eraOut.mo)
                  ELSE IF eraCtor.mo # {} /\ eraCtor.mc # {} THEN Val(eraCtor.mo)
                  ELSE (T - 2) \div 4
            mc == IF eraOut.mo # {} /\ eraOut.mc # {} THEN Val(eraOut.mc)
                  ELSE IF eraCtor.mo # {} /\ eraCtor.mc # {} THEN Val(eraCtor.mc)
                  ELSE (T - 2) \div 4
        IN  (eraOut.mo = {} <=> eraOut.mc = {}) =>
               /\ era.mo = {mo} /\ era.mc = {mc}
               /\ era.Hankel_mat.shape = <<mo * no, mc * ni>>

\* C10: on an instance that prints warnings, the warning is printed exactly
\* when an eigenvalue of A has magnitude at least 1, and A, B, C are stored and
\* returned or written all the same.
C10_WarnsOnMagnitude ==
    (eraOut.op \in ROMOps /\ eraOut.raised = "none" /\ era.verbose) =>
        /\ eraOut.warned <=> (\E e \in eraOut.eigs : MagnitudeAtLeastOne(e))
        /\ era.A # DNone /\ era.B # DNone /\ era.C # DNone
        /\ eraOut.op = "compute_ROM" => eraStore = Ret(era)
        /\ eraOut.op = "compute_ROM_and_return" => eraOut.ret = Ret(era)
\* Markovs[t], index from 0: the entries of one time sample
Sample(a, t) ==
    SubSeq(a.data, t * Prod(Tail(a.shape)) + 1, (t + 1) * Prod(Tail(a.shape)))

\* the times are dt*[0, 1, ..., n-1] with n >= 2 and a time step dt that is not 0
Uniform(times) ==
    /\ Len(times) >= 2
    /\ times[2] # 0
    /\ \A k \in DOMAIN times : times[k] = (k - 1) * times[2]

\* a consecutive difference deviates from dt = times[1]-times[0] by more than dt_tol
Deviates(times, dt_tol) ==
    /\ Len(times) >= 2
    /\ \E k \in 1 .. Len(times) - 1 :
          Abs((times[k + 1] - times[k]) - (times[2] - times[1])) > dt_tol

\* C11: make_sampled_format on times dt*[0..n-1] (n >= 2, dt # 0) and Markovs
\* of n samples returns 2*(n-1) time steps and samples with time_steps[2k] = k,
\* time_steps[2k+1] = k+1, Markovs_out[2k] = Markovs[k], Markovs_out[2k+1] =
\* Markovs[k+1], and dt = times[1]-times[0]; when a consecutive difference
\* deviates from dt by more than dt_tol, or the number of times is not the
\* number of Markov samples, it raises (ValueError, RuntimeError) and returns
\* nothing.
C11_SampledFormat ==
    fmtOut.raised # "pending" =>
        LET times == fmtOut.times
            M == fmtOut.Markovs
            n == Len(times)
        IN  /\ (Len(M.shape) = 3 /\ M.shape[1] = n /\ Uniform(times)) =>
                  /\ fmtOut.raised = "none" /\ fmtOut.returned
                  /\ Len(fmtOut.time_steps) = 2 * (n - 1)
                  /\ fmtOut.Markovs_corr.shape = <<2 * (n - 1)>> \o Tail(M.shape)
                  /\ Len(fmtOut.Markovs_corr.data) = 2 * (n - 1) * Prod(Tail(M.shape))
                  /\ \A k \in 0 .. n - 2 :
                        /\ fmtOut.time_steps[2 * k + 1] = k
                        /\ fmtOut.time_steps[2 * k + 2] = k + 1
                        /\ Sample(fmtOut.Markovs_corr, 2 * k) = Sample(M, k)
                        /\ Sample(fmtOut.Markovs_corr, 2 * k + 1) = Sample(M, k + 1)
                  /\ fmtOut.dt = times[2] - times[1]
            /\ (M.shape[1] # n \/ Deviates(times, fmtOut.dt_tol)) =>
                  /\ fmtOut.raised \in {"ValueError", "RuntimeError"}
                  /\ ~fmtOut.returned
                  /\ fmtOut.time_steps = <<>> /\ fmtOut.Markovs_corr = ENone

C11_Witness ==
    /\ fmtOut.times = <<0, 1, 2, 3>>
    /\ fmtOut.Markovs.shape = <<4, 1, 2>>
    /\ fmtOut.returned
    /\ fmtOut.time_steps = <<0, 1, 1, 2, 2, 3>>
    /\ fmtOut.Markovs_corr.shape = <<6, 1, 2>>
    /\ fmtOut.dt = 1

\* C12: when the check of _assemble_Hankel passes (mo + mc + 2 <= T, mo and mc
\* given or defaulted), every time index read by the block loop, 2*(row+col)
\* and 2*(row+col)+1 for 0 <= row < mo and 0 <= col < mc, is in [0, T), both
\* dimensions mo*no and mc*ni are non-negative, and the assembly does not fail.
C12_AssemblyInsideMarkovs ==
    (eraOut.op = "_assemble_Hankel" /\ Val(era.mo) + Val(era.mc) + 2 <= Val(era.num_time_steps)) =>
        LET mo == Val(era.mo)
            mc == Val(era.mc)
            T == Val(era.num_time_steps)
        IN  /\ \A row \in 0 .. mo - 1, col \in 0 .. mc - 1 :
                  /\ 2 * (row + col) \in 0 .. T - 1
                  /\ 2 * (row + col) + 1 \in 0 .. T - 1
            /\ mo * Val(era.num_Markovs) >= 0
            /\ mc * Val(era.num_inputs) >= 0
            /\ eraOut.raised = "none"

CollectiveOps == ComputeOps \cup {"get_decomp"} \cup PutOps

\* the broadcasts of the first k calls of the script, in program order
RECURSIVE BcastsOf(_)
BcastsOf(k) ==
    IF k = 0 THEN <<>>
    ELSE BcastsOf(k - 1) \o
         (IF is_distributed /\ prog[k].op \in ComputeOps \cup {"get_decomp"}
          THEN <<[call |-> k, what |-> "L"], [call |-> k, what |-> "S"],
                 [call |-> k, what |-> "R"]>>
          ELSE <<>>)

\* the number of barriers of the first k calls of the script
RECURSIVE BarriersOf(_)
BarriersOf(k) ==
    IF k = 0 THEN 0
    ELSE BarriersOf(k - 1) + (CASE prog[k].op = "put_decomp" -> 3
                                [] prog[k].op \in PutOps \ {"put_decomp"} -> 1
                                [] OTHER -> 0)

\* rank zero's factoring or I/O step has raised
RootFailed == pc[0] = "raised" /\ err[0] \in {"NumericalError", "IOError"}

\* rank zero has completed the compute / I/O step of call k without raising
RootStepDone(k) == ip[0] > k \/ (ip[0] = k /\ pc[0] \in {"sync", "put_decomp"})

\* every other worker of a distributed run is inside the collective of the
\* call rank zero has left
Stalled ==
    \A w \in Workers \ {0} : ip[w] = ip[0] /\ pc[w] \in {"bcast", "sync"}

\* a worker between calls, or stopped by an exception, has issued the
\* collectives of the calls it returned from and no other, whatever its rank
SameCollectives ==
    \A w \in Workers :
        pc[w] \in {"idle", "raised"} =>
            /\ bcastLog[w] = BcastsOf(ip[w] - 1)
            /\ bar[w] = BarriersOf(ip[w] - 1)

\* no worker returns from the call in which rank zero's step raised
NoReturnAfterRootFailed ==
    RootFailed => \A w \in Workers : ip[w] <= ip[0]

\* a call with collectives whose rank-zero step has completed and from which
\* some worker has not returned
Pending ==
    \E k \in 1 .. MaxCalls : \E w \in Workers :
        prog[k].op \in CollectiveOps /\ RootStepDone(k) /\ ip[w] <= k

\* C13: every worker issues the collectives of a call in the same order
\* (compute_SVD and get_decomp: broadcasts L, S, R; a put_*: one barrier)
\* whatever its rank; once rank zero's compute or I/O step of a call with
\* collectives has completed without raising, every worker eventually returns
\* from the call; when rank zero's factoring or I/O raises, rank zero issues
\* no collective in that call, and the other workers end up inside theirs and
\* never return.
C13_CollectivesMatchOrStall ==
    /\ [](SameCollectives /\ NoReturnAfterRootFailed)
    /\ <>[](~Pending /\ (RootFailed => Stalled))

C13_Witness ==
    /\ is_distributed
    /\ RootFailed /\ err[0] = "NumericalError" /\ ip[0] = 2
    /\ prog[1].op = "put_decomp"
    /\ Stalled
    /\ \A w \in Workers : bar[w] = 3

====
